---- MODULE Spec2Model ----
(***************************************************************************)
(* HelloMeshNodes: a D3D12 sample that builds a work graph with mesh nodes *)
(* and dispatches it once per painted frame.                               *)
(*                                                                         *)
(* The host program (HelloMeshNodes.cpp, D3D12Helper.cpp) is a single CPU  *)
(* thread running next to a GPU command queue; the work graph itself       *)
(* (ShaderSource.h) is a record-driven machine executed by the GPU.        *)
(*   Spec       the host program and the GPU queue it feeds                *)
(*   SpecGraph  the execution of one DispatchGraph by the work graph       *)
(***************************************************************************)
EXTENDS Integers, Sequences, FiniteSets, TLC

(***************************************************************************)
(* Bounds of the model.                                                    *)
(***************************************************************************)
\* Render calls (WM_PAINT messages) the model follows.
MaxFrames == 3
\* Adapters the DXGI factory enumerates.
MaxAdapters == 2

(***************************************************************************)
(* Program constants.                                                      *)
(***************************************************************************)
S_OK == 0
S_FALSE == 1
E_FAIL == -2147467259
DXGI_ERROR_NOT_FOUND == -2005270526
FrameCount == 2
InitialFenceValue == 1
InitialCompletedValue == 0

\* Result codes an API call can return: success, a nonzero success code, failure.
HRESULTS == {S_OK, S_FALSE, E_FAIL}
\* A returned pointer or handle: 0 is nullptr.
POINTERS == {0, 1}

SUCCEEDED(hr) == hr >= 0

VARIABLES
    pc,     \* <<function, label>>: the call the CPU thread makes next
    host,   \* the HelloMeshNodes object, the locals of the running function
            \* and the window's state
    gpu,    \* the command queue, the fence and the fence event
    obs,    \* what happened so far: calls made, steps started, commands issued
    graph   \* the work graph while a DispatchGraph executes

vars == <<pc, host, gpu, obs, graph>>

(***************************************************************************)
(* ERROR_QUIT and the tests the code applies to what a call returns.       *)
(***************************************************************************)
Terminated == <<"ERROR_QUIT", "terminated">>

\* Mutant: every result is tested with SUCCEEDED.
PassesIfSucceeded(check, r) ==
    CASE check = "EQ_S_OK"   -> SUCCEEDED(r)
      [] check = "SUCCEEDED" -> SUCCEEDED(r)
      [] check = "NONNULL"   -> r # 0
      [] check = "NONE"      -> TRUE

\* "EQ_S_OK":   ERROR_QUIT(hresult == S_OK, ...)
\* "SUCCEEDED": ERROR_QUIT(SUCCEEDED(hr), ...) or if (SUCCEEDED(...))
\* "NONNULL":   ERROR_QUIT(pointer, ...), the call returns a pointer or handle
\* "NONE":      the returned value is not tested
Passes(check, r) ==
    CASE check = "EQ_S_OK"   -> r = S_OK
      [] check = "SUCCEEDED" -> SUCCEEDED(r)
      [] check = "NONNULL"   -> r # 0
      [] check = "NONE"      -> TRUE

Values(check) == IF check = "NONNULL" THEN POINTERS ELSE HRESULTS

\* The host after `call` of `fn` returned r under `check`; ERROR_QUIT prints
\* msg when the test fails.
Returned(h, fn, call, check, r, msg) ==
    [h EXCEPT !.hresult = r,
              !.lastCall = [fn |-> fn, call |-> call, check |-> check],
              !.errorMsg = IF Passes(check, r) THEN @ ELSE msg]

\* Where control goes after a call: on, or out through ERROR_QUIT's throw.
Goto(check, r, next) == IF Passes(check, r) THEN next ELSE Terminated

(***************************************************************************)
(* Initial state: main has constructed the HelloMeshNodes object and is    *)
(* about to make its first call.                                           *)
(***************************************************************************)
\* The calls main makes, in order.
MainBody == <<"LoadCompiler", "window::Initialize", "Initialize",
              "MessageLoop", "~HelloMeshNodes", "ReleaseCompiler">>

\* Mutant: the device is created before the experimental features are enabled.
InitializeBodyDeviceFirst ==
    <<"InitializeDirectX", "EnableExperimentalFeatures",
      "CheckWorkGraphMeshNodeSupport", "CompileShader(lib_6_9)",
      "CompileShader(ps_6_9)", "CreateGWGStateObject", "PrepareWorkGraph">>

\* The calls Initialize makes, in order.
InitializeBody == <<"EnableExperimentalFeatures", "InitializeDirectX",
                    "CheckWorkGraphMeshNodeSupport", "CompileShader(lib_6_9)",
                    "CompileShader(ps_6_9)", "CreateGWGStateObject",
                    "PrepareWorkGraph">>

\* The first call each function makes.
Entry(fn) ==
    CASE fn = "LoadCompiler"       -> <<fn, "LoadLibrary">>
      [] fn = "window::Initialize" -> <<fn, "CreateWindow">>
      [] fn = "Initialize"         -> <<fn, InitializeBody[1]>>
      [] fn = "MessageLoop"        -> <<fn, "PeekMessage">>
      [] fn = "~HelloMeshNodes"    -> <<fn, "device_">>
      [] fn = "ReleaseCompiler"    -> <<fn, "FreeLibrary">>
      [] fn = "EnableExperimentalFeatures"
                                   -> <<fn, "D3D12EnableExperimentalFeatures">>
      [] fn = "InitializeDirectX"  -> <<fn, "CreateDXGIFactory2">>
      [] fn = "CheckWorkGraphMeshNodeSupport" -> <<fn, "CheckFeatureSupport">>
      [] fn = "CompileShader(lib_6_9)" -> <<fn, "GetProcAddress">>
      [] fn = "CompileShader(ps_6_9)"  -> <<fn, "GetProcAddress">>
      [] fn = "CreateGWGStateObject"   -> <<fn, "CreateStateObject">>
      [] fn = "PrepareWorkGraph"
              -> <<fn, "QueryInterface(ID3D12StateObjectProperties1)">>

IndexIn(seq, x) == CHOOSE i \in 1..Len(seq) : seq[i] = x
InSeq(seq, x) == \E i \in 1..Len(seq) : seq[i] = x

HostInit ==
    [hresult |-> S_OK,
     lastCall |-> [fn |-> "main", call |-> "none", check |-> "NONE"],
     errorMsg |-> "",
     sDxCompilerDLL |-> FALSE,
     adapterIndex |-> 0,
     hardwareAdapter |-> FALSE,
     device_ |-> FALSE,
     workGraphsTier |-> 0,
     workGraphLibrary_ |-> FALSE,
     pixelShaderLibrary_ |-> FALSE,
     stateObject_ |-> {},
     setProgramDesc_ |-> [Type |-> "unset", Flags |-> "unset"],
     listState |-> "none",
     commandList |-> <<>>,
     fenceValue_ |-> 0,
     fence |-> 0,
     frameIndex_ |-> 0,
     message |-> "none",
     procCaller |-> "none",
     waitCaller |-> "none",
     userData |-> FALSE,
     quitPosted |-> FALSE]

GpuInit ==
    [fence_ |-> FALSE,
     completedValue |-> 0,
     fenceEvent |-> FALSE,
     eventOn |-> {},
     queue |-> <<>>,
     executed |-> <<>>,
     presented |-> 0]

ObsInit ==
    [experimental |-> FALSE,  \* D3D12EnableExperimentalFeatures succeeded
     initLog |-> <<>>,        \* the functions Initialize called, in order
     initDone |-> {},         \* those that returned
     listOps |-> <<>>,        \* each use of commandList_ and its state then
     paintHandled |-> 0,      \* WM_PAINT messages the window procedure got
     renderCalls |-> 0,       \* Render calls made
     returned |-> 0,          \* Render calls that returned
     callSignals |-> 0,       \* Signal calls since Render (or the
     callWaits |-> 0,         \*   destructor) was entered; likewise the
     callExecutes |-> 0,      \*   waits and the ExecuteCommandLists calls
     sawIncomplete |-> FALSE, \* the fence was behind at GetCompletedValue
     reachedBeforeSet |-> FALSE, \* ... and at the value at SetEventOnCompletion
     setPrograms |-> <<>>,    \* the flags of each SetProgram recorded
     signalled |-> <<>>]      \* the fence values passed to Signal

\* No DispatchGraph is executing.
GraphIdle == [records |-> <<>>]

Init ==
    /\ pc = Entry(MainBody[1])
    /\ host = HostInit
    /\ gpu = GpuInit
    /\ obs = ObsInit
    /\ graph = GraphIdle

(***************************************************************************)
(* main: one call after the other.                                         *)
(***************************************************************************)
Main ==
    /\ pc[2] = "return"
    /\ InSeq(MainBody, pc[1])
    /\ LET i == IndexIn(MainBody, pc[1])
       IN pc' = IF i < Len(MainBody) THEN Entry(MainBody[i + 1])
                                     ELSE <<"main", "exit">>
    /\ UNCHANGED <<host, gpu, obs, graph>>

LoadCompiler ==
    /\ pc = <<"LoadCompiler", "LoadLibrary">>
    /\ \E r \in POINTERS :
        /\ host' = [Returned(host, pc[1], pc[2], "NONNULL", r,
                             "Failed to initialize compiler.")
                       EXCEPT !.sDxCompilerDLL = (r # 0)]
        /\ pc' = Goto("NONNULL", r, <<"LoadCompiler", "return">>)
    /\ UNCHANGED <<gpu, obs, graph>>

ReleaseCompiler ==
    /\ pc = <<"ReleaseCompiler", "FreeLibrary">>
    /\ host' = [host EXCEPT !.sDxCompilerDLL = FALSE]
    /\ pc' = <<"ReleaseCompiler", "return">>
    /\ UNCHANGED <<gpu, obs, graph>>

(***************************************************************************)
(* The window: creation, the window procedure and the message loop.        *)
(***************************************************************************)
\* CreateWindow sends WM_CREATE to the window procedure before it returns.
WindowInitialize ==
    /\ pc = <<"window::Initialize", "CreateWindow">>
    /\ host' = [host EXCEPT !.message = "WM_CREATE",
                            !.procCaller = "CreateWindow"]
    /\ pc' = <<"Proc", "switch">>
    /\ UNCHANGED <<gpu, obs, graph>>

\* The messages the loop can take off the queue.
Messages == {"WM_PAINT", "WM_KEYDOWN", "WM_DESTROY", "WM_SIZE", "WM_QUIT"}

\* Mutant: WM_SIZE renders too.
ProcCallsRenderOnSize(m) == m \in {"WM_PAINT", "WM_SIZE"}

\* The case of the switch that calls Render.
ProcCallsRender(m) == m = "WM_PAINT"

\* The cases of the switch that reach PostQuitMessage: WM_KEYDOWN with
\* VK_ESCAPE, WM_KEYDOWN without (it falls through to WM_DESTROY), WM_DESTROY.
ProcPostsQuit(m) == m \in {"WM_KEYDOWN", "WM_DESTROY"}

ProcReturn ==
    IF host.procCaller = "CreateWindow"
        THEN <<"window::Initialize", "return">>
        ELSE <<"MessageLoop", "PeekMessage">>

Proc ==
    \/ /\ pc = <<"Proc", "switch">>
       /\ LET m == host.message
              painted == IF m = "WM_PAINT" THEN 1 ELSE 0
          IN IF ProcCallsRender(m)
                THEN /\ pc' = <<"Render", "commandAllocator_->Reset">>
                     /\ obs' = [obs EXCEPT !.paintHandled = @ + painted,
                                           !.renderCalls = @ + 1,
                                           !.callSignals = 0,
                                           !.callWaits = 0,
                                           !.callExecutes = 0,
                                           !.sawIncomplete = FALSE,
                                           !.reachedBeforeSet = FALSE]
                     /\ host' = host
                ELSE /\ pc' = ProcReturn
                     /\ obs' = [obs EXCEPT !.paintHandled = @ + painted]
                     /\ host' = [host EXCEPT
                            !.userData = IF m = "WM_CREATE" THEN TRUE ELSE @,
                            !.quitPosted = IF ProcPostsQuit(m) THEN TRUE ELSE @]
       /\ UNCHANGED <<gpu, graph>>
    \/ /\ pc = <<"Render", "return">>
       /\ pc' = ProcReturn
       /\ obs' = [obs EXCEPT !.returned = @ + 1]
       /\ UNCHANGED <<host, gpu, graph>>

MessageLoop ==
    /\ pc = <<"MessageLoop", "PeekMessage">>
    /\ \E m \in Messages :
        /\ m = "WM_QUIT" => host.quitPosted
        /\ m = "WM_PAINT" => obs.paintHandled < MaxFrames
        /\ host' = [host EXCEPT !.message = m, !.procCaller = "DispatchMessage"]
        /\ pc' = IF m = "WM_QUIT" THEN <<"MessageLoop", "return">>
                                  ELSE <<"Proc", "switch">>
    /\ UNCHANGED <<gpu, obs, graph>>

(***************************************************************************)
(* HelloMeshNodes::Initialize and the functions it calls.                  *)
(***************************************************************************)
\* Initialize calls the next function of its body.
Initialize ==
    /\ pc[1] = "Initialize"
    /\ InSeq(InitializeBody, pc[2])
    /\ obs' = [obs EXCEPT !.initLog = Append(@, pc[2])]
    /\ pc' = Entry(pc[2])
    /\ UNCHANGED <<host, gpu, graph>>

\* A function Initialize called returns to it.
InitializeReturn ==
    /\ pc[2] = "return"
    /\ InSeq(InitializeBody, pc[1])
    /\ obs' = [obs EXCEPT !.initDone = @ \cup {pc[1]}]
    /\ LET i == IndexIn(InitializeBody, pc[1])
       IN pc' = IF i < Len(InitializeBody)
                   THEN <<"Initialize", InitializeBody[i + 1]>>
                   ELSE <<"Initialize", "return">>
    /\ UNCHANGED <<host, gpu, graph>>

EnableExperimentalFeatures ==
    /\ pc = <<"EnableExperimentalFeatures", "D3D12EnableExperimentalFeatures">>
    /\ \E r \in HRESULTS :
        /\ host' = Returned(host, pc[1], pc[2], "EQ_S_OK", r,
                            "Failed to enable experimental features.")
        /\ obs' = [obs EXCEPT !.experimental = SUCCEEDED(r)]
        /\ pc' = Goto("EQ_S_OK", r, <<"EnableExperimentalFeatures", "return">>)
    /\ UNCHANGED <<gpu, graph>>

\* GetHardwareAdapter: probe the adapters in turn; the first that supports
\* Direct3D 12 is taken, and none of the results ends the program.
GetHardwareAdapter ==
    \/ /\ pc = <<"GetHardwareAdapter", "EnumAdapters1">>
       /\ \E r \in {S_OK, DXGI_ERROR_NOT_FOUND} :
            /\ r = S_OK => host.adapterIndex < MaxAdapters
            /\ host' = Returned(host, pc[1], pc[2], "NONE", r, "")
            /\ pc' = IF r = DXGI_ERROR_NOT_FOUND
                        THEN <<"InitializeDirectX", "D3D12CreateDevice">>
                        ELSE <<"GetHardwareAdapter", "D3D12CreateDevice">>
       /\ UNCHANGED <<gpu, obs, graph>>
    \/ /\ pc = <<"GetHardwareAdapter", "D3D12CreateDevice">>
       /\ \E r \in HRESULTS :
            /\ host' = [Returned(host, pc[1], pc[2], "NONE", r, "") EXCEPT
                            !.hardwareAdapter = SUCCEEDED(r),
                            !.adapterIndex = IF SUCCEEDED(r) THEN @ ELSE @ + 1]
            /\ pc' = IF SUCCEEDED(r)
                        THEN <<"InitializeDirectX", "D3D12CreateDevice">>
                        ELSE <<"GetHardwareAdapter", "EnumAdapters1">>
       /\ UNCHANGED <<gpu, obs, graph>>

\* The calls of InitializeDirectX whose result is kept, in order, with the
\* test applied to the result and what ERROR_QUIT prints when it fails.
DXCalls == <<
    [call |-> "CreateDXGIFactory2", check |-> "EQ_S_OK",
     msg |-> "Failed to create IDXGIFactory4."],
    [call |-> "D3D12CreateDevice", check |-> "EQ_S_OK",
     msg |-> "Failed to create ID3D12Device."],
    [call |-> "CreateCommandQueue", check |-> "EQ_S_OK",
     msg |-> "Failed to create ID3D12CommandQueue."],
    [call |-> "CreateSwapChainForHwnd", check |-> "EQ_S_OK",
     msg |-> "Failed to create IDXGISwapChain1."],
    [call |-> "MakeWindowAssociation", check |-> "EQ_S_OK",
     msg |-> "Failed to make window association."],
    [call |-> "QueryInterface(IDXGISwapChain3)", check |-> "EQ_S_OK",
     msg |-> "Failed to query IDXGISwapChain3."],
    [call |-> "CreateDescriptorHeap(RTV)", check |-> "EQ_S_OK",
     msg |-> "Failed to create RTV descriptor heap."],
    [call |-> "GetBuffer(0)", check |-> "EQ_S_OK",
     msg |-> "Failed to access render target of swap chain."],
    [call |-> "GetBuffer(1)", check |-> "EQ_S_OK",
     msg |-> "Failed to access render target of swap chain."],
    [call |-> "CreateDescriptorHeap(DSV)", check |-> "EQ_S_OK",
     msg |-> "Failed to create DSV descriptor heap."],
    [call |-> "SetName", check |-> "NONE", msg |-> ""],
    [call |-> "CreateCommittedResource", check |-> "EQ_S_OK",
     msg |-> "Failed to create depth buffer."],
    [call |-> "CreateCommandAllocator", check |-> "EQ_S_OK",
     msg |-> "Failed to create ID3D12CommandAllocator."],
    [call |-> "CreateCommandList", check |-> "EQ_S_OK",
     msg |-> "Failed to create ID3D12GraphicsCommandList."],
    [call |-> "commandList_->Close", check |-> "EQ_S_OK",
     msg |-> "Failed to close ID3D12GraphicsCommandList."],
    [call |-> "CreateFence", check |-> "EQ_S_OK",
     msg |-> "Failed to create ID3D12Fence."],
    [call |-> "CreateEvent", check |-> "NONNULL",
     msg |-> "Failed to create synchronization event."],
    [call |-> "D3D12SerializeRootSignature", check |-> "EQ_S_OK",
     msg |-> "Failed to serialize RootSignature."],
    [call |-> "CreateRootSignature", check |-> "EQ_S_OK",
     msg |-> "Failed to create RootSignature."] >>

\* Where InitializeDirectX goes after call i succeeded.
DXNext(i) ==
    IF i = 1 THEN <<"GetHardwareAdapter", "EnumAdapters1">>
    ELSE IF i = Len(DXCalls) THEN <<"InitializeDirectX", "return">>
    ELSE <<"InitializeDirectX", DXCalls[i + 1].call>>

\* Mutant: the list is left in the recording state it was created in.
DXListStateNotClosed(call, state) ==
    IF call = "CreateCommandList" THEN "recording" ELSE state

\* The state of commandList_ after a call of InitializeDirectX: command lists
\* are created in the recording state, and Close closes them.
DXListState(call, state) ==
    CASE call = "CreateCommandList"   -> "recording"
      [] call = "commandList_->Close" -> "closed"
      [] OTHER                        -> state

\* What a successful call of InitializeDirectX leaves in the object.
DXEffect(h, call) ==
    [h EXCEPT !.device_ = IF call = "D3D12CreateDevice" THEN TRUE ELSE @,
              !.frameIndex_ =
                    IF call = "QueryInterface(IDXGISwapChain3)" THEN 0 ELSE @,
              !.listState = DXListState(call, @),
              !.fenceValue_ =
                    IF call = "CreateFence" THEN InitialFenceValue ELSE @]

InitializeDirectX ==
    /\ pc[1] = "InitializeDirectX"
    /\ \E i \in 1..Len(DXCalls) :
        /\ pc[2] = DXCalls[i].call
        /\ \E r \in Values(DXCalls[i].check) :
            LET c == DXCalls[i]
                ok == Passes(c.check, r)
                h == Returned(host, pc[1], c.call, c.check, r, c.msg)
            IN /\ host' = IF ok THEN DXEffect(h, c.call) ELSE h
               /\ pc' = Goto(c.check, r, DXNext(i))
               /\ gpu' = IF ok /\ c.call = "CreateFence"
                            THEN [gpu EXCEPT !.fence_ = TRUE,
                                     !.completedValue = InitialCompletedValue]
                            ELSE gpu
               /\ obs' = [obs EXCEPT
                            !.listOps = IF c.call = "commandList_->Close"
                                THEN Append(@, [op |-> "Close",
                                                state |-> host.listState])
                                ELSE @]
    /\ UNCHANGED graph

D3D12_WORK_GRAPHS_TIER_NOT_SUPPORTED == 0
D3D12_WORK_GRAPHS_TIER_1_0 == 10
D3D12_WORK_GRAPHS_TIER_1_1 == 11
WorkGraphsTiers == {D3D12_WORK_GRAPHS_TIER_NOT_SUPPORTED,
                    D3D12_WORK_GRAPHS_TIER_1_0, D3D12_WORK_GRAPHS_TIER_1_1}

\* A test that is content with work graphs without mesh nodes.
SupportsWorkGraphs(tier) == tier >= D3D12_WORK_GRAPHS_TIER_1_0

\* Options.WorkGraphsTier >= D3D12_WORK_GRAPHS_TIER_1_1
SupportsMeshNodes(tier) == tier >= D3D12_WORK_GRAPHS_TIER_1_1

CheckWorkGraphMeshNodeSupport ==
    /\ pc = <<"CheckWorkGraphMeshNodeSupport", "CheckFeatureSupport">>
    /\ \E r \in HRESULTS, tier \in WorkGraphsTiers :
        LET h == Returned(host, pc[1], pc[2], "EQ_S_OK", r,
                    "Failed to check support for work graphs and mesh nodes.")
        IN IF r # S_OK
              THEN /\ host' = h
                   /\ pc' = Terminated
              ELSE IF SupportsMeshNodes(tier)
              THEN /\ host' = [h EXCEPT !.workGraphsTier = tier]
                   /\ pc' = <<"CheckWorkGraphMeshNodeSupport", "return">>
              ELSE /\ host' = [h EXCEPT !.workGraphsTier = tier, !.errorMsg =
                        "Failed to find device with D3D12 Work Graphs 1.1 support."]
                   /\ pc' = Terminated
    /\ UNCHANGED <<gpu, obs, graph>>

\* d3d12::CompileShader: a chain of nested tests; a call that fails skips the
\* rest, resultBlob stays null and ERROR_QUIT(resultBlob, ...) ends the program.
CompileCalls == <<
    [call |-> "GetProcAddress", check |-> "NONNULL"],
    [call |-> "DxcCreateInstance(CLSID_DxcUtils)", check |-> "SUCCEEDED"],
    [call |-> "DxcCreateInstance(CLSID_DxcCompiler)", check |-> "SUCCEEDED"],
    [call |-> "CreateBlob", check |-> "SUCCEEDED"],
    [call |-> "Compile", check |-> "SUCCEEDED"],
    [call |-> "GetStatus", check |-> "SUCCEEDED"],
    [call |-> "GetResult", check |-> "NONNULL"] >>

CompileTargets == {"CompileShader(lib_6_9)", "CompileShader(ps_6_9)"}

CompileShader ==
    /\ pc[1] \in CompileTargets
    /\ \E i \in 1..Len(CompileCalls) :
        /\ pc[2] = CompileCalls[i].call
        /\ \E r \in Values(CompileCalls[i].check) :
            LET c == CompileCalls[i]
                \* without the compiler DLL no call is made at all
                res == IF host.sDxCompilerDLL THEN r ELSE 0
                chk == IF host.sDxCompilerDLL THEN c.check ELSE "NONNULL"
                h == Returned(host, pc[1], c.call, chk, res,
                              "Failed to compile GWG Library.")
                last == i = Len(CompileCalls)
                lib == pc[1] = "CompileShader(lib_6_9)"
            IN /\ host' = IF Passes(chk, res) /\ last
                    THEN [h EXCEPT
                            !.workGraphLibrary_ = IF lib THEN TRUE ELSE @,
                            !.pixelShaderLibrary_ = IF lib THEN @ ELSE TRUE]
                    ELSE h
               /\ pc' = Goto(chk, res,
                             IF last THEN <<pc[1], "return">>
                                     ELSE <<pc[1], CompileCalls[i + 1].call>>)
    /\ UNCHANGED <<gpu, obs, graph>>

(***************************************************************************)
(* The shader library (ShaderSource.h) as the state object sees it.        *)
(***************************************************************************)
\* Number of Koch iterations.
maxSnowflakeRecursions == 3

NoOutputs == [SnowflakeNode |-> 0, TriangleMeshNode |-> 0, LineMeshNode |-> 0]

\* The [MaxRecords(n)] NodeOutput parameters of each node function.
EntryNodeMaxRecords == [NoOutputs EXCEPT !.SnowflakeNode = 3,
                                         !.TriangleMeshNode = 1]
SnowflakeNodeMaxRecords == [NoOutputs EXCEPT !.SnowflakeNode = 4,
                                             !.TriangleMeshNode = 1,
                                             !.LineMeshNode = 1]

\* The names a node's outputs send records to.
Outputs(maxRecords) == {o \in DOMAIN maxRecords : maxRecords[o] > 0}

\* The [Shader("node")] functions of the lib_6_9 library with their attributes
\* (nodeId "" when the function has no [NodeId] attribute).
ShaderFunctions == {
    [name |-> "EntryNode", launch |-> "thread", nodeId |-> "",
     isProgramEntry |-> TRUE, maxRecursionDepth |-> 0,
     maxRecords |-> EntryNodeMaxRecords],
    [name |-> "SnowflakeNode", launch |-> "thread", nodeId |-> "",
     isProgramEntry |-> FALSE, maxRecursionDepth |-> maxSnowflakeRecursions,
     maxRecords |-> SnowflakeNodeMaxRecords],
    [name |-> "LineMeshShader", launch |-> "mesh", nodeId |-> "LineMeshNode",
     isProgramEntry |-> FALSE, maxRecursionDepth |-> 0,
     maxRecords |-> NoOutputs],
    [name |-> "TriangleMeshShader", launch |-> "mesh", nodeId |-> "",
     isProgramEntry |-> FALSE, maxRecursionDepth |-> 0,
     maxRecords |-> NoOutputs] }

(***************************************************************************)
(* CreateGWGStateObject: the generic programs and the mesh launch override *)
(* the state object description holds, and the work graph they make.       *)
(***************************************************************************)
\* The generic program subobjects (name "" when SetProgramName is not called).
GenericPrograms == {
    [name |-> "",
     exports |-> {"LineMeshShader", "MeshNodePixelShader"}],
    [name |-> "TriangleMeshNodeGenericProgram",
     exports |-> {"TriangleMeshShader", "MeshNodePixelShader"}] }

\* Mutant: no mesh launch override is created.
NoMeshLaunchNodeOverrides == {}

\* CreateMeshLaunchNodeOverrides(genericProgramName)->NewName(...)
MeshLaunchNodeOverrides == {
    [program |-> "TriangleMeshNodeGenericProgram",
     newName |-> "TriangleMeshNode"] }

\* A node takes its [NodeId] attribute when it has one, else the function name.
DefaultNodeId(f) == IF f.nodeId # "" THEN f.nodeId ELSE f.name

\* The id of the mesh node a generic program makes of mesh shader f: the
\* override's new name when there is one for the program (this also removes
\* the node of the default name), else the default id.
MeshNodeId(g, f) ==
    IF g.name # "" /\ \E o \in MeshLaunchNodeOverrides : o.program = g.name
        THEN (CHOOSE o \in MeshLaunchNodeOverrides : o.program = g.name).newName
        ELSE DefaultNodeId(f)

MakeNode(id, f) ==
    [id |-> id, shader |-> f.name, launch |-> f.launch,
     isProgramEntry |-> f.isProgramEntry,
     maxRecursionDepth |-> f.maxRecursionDepth,
     outputs |-> Outputs(f.maxRecords)]

\* IncludeAllAvailableNodes: every non-mesh node function of the library, and
\* one mesh node for every generic program that exports a mesh node shader.
WorkGraphNodes ==
    {MakeNode(DefaultNodeId(f), f) : f \in {x \in ShaderFunctions : x.launch # "mesh"}}
    \cup
    {MakeNode(MeshNodeId(gf[1], gf[2]), gf[2]) :
        gf \in {y \in GenericPrograms \X ShaderFunctions :
                    y[2].launch = "mesh" /\ y[2].name \in y[1].exports}}

NodeIds(nodes) == {n.id : n \in nodes}

\* The entry points of a work graph: the nodes marked [NodeIsProgramEntry] and
\* the nodes no other node sends records to.
EntryPoints(nodes) ==
    {n.id : n \in {x \in nodes :
        \/ x.isProgramEntry
        \/ ~\E y \in nodes : y.id # x.id /\ x.id \in y.outputs}}

CreateGWGStateObject ==
    /\ pc = <<"CreateGWGStateObject", "CreateStateObject">>
    /\ \E r \in HRESULTS, p \in POINTERS :
        LET ok == r = S_OK /\ p # 0
            h == [Returned(host, pc[1], pc[2], "EQ_S_OK", r,
                           "Failed to create Work Graph State Object.")
                    EXCEPT !.errorMsg = IF ok THEN @
                        ELSE "Failed to create Work Graph State Object."]
        IN /\ host' = IF ok THEN [h EXCEPT !.stateObject_ = WorkGraphNodes]
                            ELSE h
           /\ pc' = IF ok THEN <<"CreateGWGStateObject", "return">>
                          ELSE Terminated
    /\ UNCHANGED <<gpu, obs, graph>>

\* PrepareWorkGraph, with d3d12::AllocateBuffer for the backing memory.
PrepareWorkGraph ==
    \/ /\ pc = <<"PrepareWorkGraph",
                 "QueryInterface(ID3D12StateObjectProperties1)">>
       /\ \E r \in HRESULTS :
            /\ host' = Returned(host, pc[1], pc[2], "SUCCEEDED", r,
                            "Failed to query ID3D12StateObjectProperties1.")
            /\ pc' = Goto("SUCCEEDED", r, <<"PrepareWorkGraph",
                            "QueryInterface(ID3D12WorkGraphProperties1)">>)
       /\ UNCHANGED <<gpu, obs, graph>>
    \/ /\ pc = <<"PrepareWorkGraph",
                 "QueryInterface(ID3D12WorkGraphProperties1)">>
       /\ \E r \in HRESULTS :
            /\ host' = Returned(host, pc[1], pc[2], "SUCCEEDED", r,
                            "Failed to query ID3D12WorkGraphProperties1.")
            /\ pc' = Goto("SUCCEEDED", r, <<"PrepareWorkGraph",
                            "GetWorkGraphMemoryRequirements">>)
       /\ UNCHANGED <<gpu, obs, graph>>
    \/ /\ pc = <<"PrepareWorkGraph", "GetWorkGraphMemoryRequirements">>
       /\ \E needsMemory \in BOOLEAN :
            pc' = IF needsMemory
                    THEN <<"AllocateBuffer", "CreateCommittedResource">>
                    ELSE <<"PrepareWorkGraph", "setProgramDesc">>
       /\ UNCHANGED <<host, gpu, obs, graph>>
    \/ /\ pc = <<"AllocateBuffer", "CreateCommittedResource">>
       /\ \E r \in HRESULTS :
            /\ host' = Returned(host, pc[1], pc[2], "SUCCEEDED", r,
                                "Failed to allocate buffer.")
            /\ pc' = Goto("SUCCEEDED", r,
                          <<"PrepareWorkGraph", "setProgramDesc">>)
       /\ UNCHANGED <<gpu, obs, graph>>
    \/ /\ pc = <<"PrepareWorkGraph", "setProgramDesc">>
       /\ host' = [host EXCEPT !.setProgramDesc_ =
                        [Type |-> "D3D12_PROGRAM_TYPE_WORK_GRAPH",
                         Flags |-> "D3D12_SET_WORK_GRAPH_FLAG_INITIALIZE"]]
       /\ pc' = <<"PrepareWorkGraph", "return">>
       /\ UNCHANGED <<gpu, obs, graph>>

(***************************************************************************)
(* The GPU: the command queue executes what was submitted, in order.       *)
(***************************************************************************)
QueueItem(op, list, value) == [op |-> op, list |-> list, value |-> value]

\* Command lists submitted and not yet executed.
InFlight(queue) ==
    Cardinality({i \in 1..Len(queue) : queue[i].op = "ExecuteCommandLists"})

\* The fence reaches `value`: events registered for values up to it are set.
FenceSignal(g, value) ==
    [g EXCEPT !.completedValue = value,
              !.fenceEvent = @ \/ \E v \in g.eventOn : v <= value,
              !.eventOn = {v \in @ : v > value}]

GPUExecute ==
    /\ Len(gpu.queue) > 0
    /\ LET item == Head(gpu.queue)
           g == [gpu EXCEPT !.queue = Tail(@)]
       IN gpu' = CASE item.op = "ExecuteCommandLists"
                        -> [g EXCEPT !.executed = Append(@, item.list)]
                   [] item.op = "Signal" -> FenceSignal(g, item.value)
                   [] OTHER -> g
    /\ UNCHANGED <<pc, host, obs, graph>>

(***************************************************************************)
(* HelloMeshNodes::Render, RecordCommandList and WaitForPreviousFrame.     *)
(***************************************************************************)
Command(cmd, arg) == [cmd |-> cmd, arg |-> arg]

\* The commands RecordCommandList records.
RecordedCommands(frameIndex, setProgramDesc) == <<
    Command("ResourceBarrier", "PRESENT->RENDER_TARGET"),
    Command("RSSetViewports", "720x720"),
    Command("RSSetScissorRects", "720x720"),
    Command("ClearRenderTargetView", IF frameIndex = 0 THEN "rtv0" ELSE "rtv1"),
    Command("ClearDepthStencilView", "dsv"),
    Command("OMSetRenderTargets", IF frameIndex = 0 THEN "rtv0" ELSE "rtv1"),
    Command("SetGraphicsRootSignature", "globalRootSignature_"),
    Command("SetProgram", setProgramDesc.Flags),
    Command("DispatchGraph", "EntrypointIndex 0, NumRecords 1"),
    Command("ResourceBarrier", "RENDER_TARGET->PRESENT") >>

\* The flags of the SetProgram commands in a sequence of commands, in order.
SetProgramFlags(cmds) ==
    LET F[i \in 0..Len(cmds)] ==
            IF i = 0 THEN <<>>
            ELSE IF cmds[i].cmd = "SetProgram" THEN Append(F[i - 1], cmds[i].arg)
            ELSE F[i - 1]
    IN F[Len(cmds)]

\* The number of DispatchGraph commands in a sequence of commands.
DispatchGraphs(cmds) ==
    Cardinality({i \in 1..Len(cmds) : cmds[i].cmd = "DispatchGraph"})

\* Mutant: the flags are left as they were.
FlagsKept(flags) == flags

\* The flags RecordCommandList leaves in setProgramDesc_ for the next frame.
FlagsAfterRecord(flags) == "D3D12_SET_WORK_GRAPH_FLAG_NONE"

ListOp(op) == [op |-> op, state |-> host.listState,
               inFlight |-> InFlight(gpu.queue)]

Render ==
    \/ /\ pc = <<"Render", "commandAllocator_->Reset">>
       /\ \E r \in HRESULTS :
            /\ host' = Returned(host, pc[1], pc[2], "EQ_S_OK", r,
                                "Failed to reset ID3D12CommandAllocator.")
            /\ pc' = Goto("EQ_S_OK", r, <<"Render", "commandList_->Reset">>)
       /\ obs' = [obs EXCEPT !.listOps = Append(@, ListOp("AllocatorReset"))]
       /\ UNCHANGED <<gpu, graph>>
    \/ /\ pc = <<"Render", "commandList_->Reset">>
       /\ \E r \in HRESULTS :
            LET h == Returned(host, pc[1], pc[2], "EQ_S_OK", r,
                              "Failed to reset ID3D12GraphicsCommandList.")
            IN /\ host' = IF r = S_OK
                            THEN [h EXCEPT !.listState = "recording",
                                           !.commandList = <<>>]
                            ELSE h
               /\ pc' = Goto("EQ_S_OK", r, <<"Render", "RecordCommandList">>)
       /\ obs' = [obs EXCEPT !.listOps = Append(@, ListOp("Reset"))]
       /\ UNCHANGED <<gpu, graph>>
    \/ /\ pc = <<"Render", "RecordCommandList">>
       /\ host' = [host EXCEPT
            !.commandList = @ \o RecordedCommands(host.frameIndex_,
                                                  host.setProgramDesc_),
            !.setProgramDesc_.Flags = FlagsAfterRecord(@)]
       /\ pc' = <<"Render", "commandList_->Close">>
       /\ obs' = [obs EXCEPT
            !.listOps = Append(@, ListOp("Record")),
            !.setPrograms = @ \o SetProgramFlags(
                RecordedCommands(host.frameIndex_, host.setProgramDesc_))]
       /\ UNCHANGED <<gpu, graph>>
    \/ /\ pc = <<"Render", "commandList_->Close">>
       /\ \E r \in HRESULTS :
            LET h == Returned(host, pc[1], pc[2], "EQ_S_OK", r,
                              "Failed to close ID3D12CommandAllocator.")
            IN /\ host' = IF r = S_OK THEN [h EXCEPT !.listState = "closed"]
                                      ELSE h
               /\ pc' = Goto("EQ_S_OK", r, <<"Render", "ExecuteCommandLists">>)
       /\ obs' = [obs EXCEPT !.listOps = Append(@, ListOp("Close"))]
       /\ UNCHANGED <<gpu, graph>>
    \/ /\ pc = <<"Render", "ExecuteCommandLists">>
       /\ gpu' = [gpu EXCEPT !.queue = Append(@,
                    QueueItem("ExecuteCommandLists", host.commandList, 0))]
       /\ obs' = [obs EXCEPT !.listOps = Append(@, ListOp("Execute")),
                             !.callExecutes = @ + 1]
       /\ pc' = <<"Render", "Present">>
       /\ UNCHANGED <<host, graph>>
    \/ /\ pc = <<"Render", "Present">>
       /\ \E r \in HRESULTS :
            /\ host' = [Returned(host, pc[1], pc[2], "EQ_S_OK", r,
                                 "Failed to present frame.")
                          EXCEPT !.waitCaller = "Render"]
            /\ gpu' = IF SUCCEEDED(r)
                        THEN [gpu EXCEPT
                                !.queue = Append(@, QueueItem("Present", <<>>, 0)),
                                !.presented = @ + 1]
                        ELSE gpu
            /\ pc' = Goto("EQ_S_OK", r, <<"WaitForPreviousFrame", "Signal">>)
       /\ UNCHANGED <<obs, graph>>

\* A fence that only raises the event when it moves, not when it is already
\* at the value.
SetEventOnCompletionLate(g, value) == [g EXCEPT !.eventOn = @ \cup {value}]

\* ID3D12Fence::SetEventOnCompletion: the event is set at once when the fence
\* is already at the value, and when the fence reaches it otherwise.
SetEventOnCompletion(g, value) ==
    IF g.completedValue >= value
        THEN [g EXCEPT !.fenceEvent = TRUE]
        ELSE [g EXCEPT !.eventOn = @ \cup {value}]

\* A manual-reset event stays signalled through a wait.
EventStaysSignalled(signalled) == signalled

\* fenceEvent_ is an auto-reset event (bManualReset = FALSE): the wait that
\* it releases resets it.
EventAfterWait(signalled) == FALSE

\* WaitForPreviousFrame leaving the fence value as it was.
NextFenceValueSame(value) == value

\* fenceValue_++
NextFenceValue(value) == value + 1

\* Mutants: the test is off by one, never true, always true.
MustWaitOffByOne(completed, fenceLocal) == completed < fenceLocal - 1
MustWaitNever(completed, fenceLocal) == FALSE
MustWaitAlways(completed, fenceLocal) == TRUE

\* The test that decides whether WaitForPreviousFrame waits for the event.
MustWait(completed, fenceLocal) == completed < fenceLocal

WaitForPreviousFrame ==
    \/ /\ pc = <<"WaitForPreviousFrame", "Signal">>
       /\ \E r \in HRESULTS :
            LET h == [Returned(host, pc[1], pc[2], "EQ_S_OK", r,
                               "Failed to signal fence.")
                        EXCEPT !.fence = host.fenceValue_]
            IN /\ host' = h
               /\ gpu' = IF SUCCEEDED(r)
                            THEN [gpu EXCEPT !.queue = Append(@,
                                    QueueItem("Signal", <<>>, host.fenceValue_))]
                            ELSE gpu
               /\ obs' = [obs EXCEPT
                            !.callSignals = @ + 1,
                            !.signalled = IF SUCCEEDED(r)
                                THEN Append(@, host.fenceValue_) ELSE @]
               /\ pc' = Goto("EQ_S_OK", r,
                             <<"WaitForPreviousFrame", "fenceValue_++">>)
       /\ UNCHANGED graph
    \/ /\ pc = <<"WaitForPreviousFrame", "fenceValue_++">>
       /\ host' = [host EXCEPT !.fenceValue_ = NextFenceValue(@)]
       /\ pc' = <<"WaitForPreviousFrame", "GetCompletedValue">>
       /\ UNCHANGED <<gpu, obs, graph>>
    \/ /\ pc = <<"WaitForPreviousFrame", "GetCompletedValue">>
       /\ LET wait == MustWait(gpu.completedValue, host.fence)
          IN /\ obs' = [obs EXCEPT !.sawIncomplete =
                                        gpu.completedValue < host.fence]
             /\ pc' = IF wait
                        THEN <<"WaitForPreviousFrame", "SetEventOnCompletion">>
                        ELSE <<"WaitForPreviousFrame", "GetCurrentBackBufferIndex">>
       /\ UNCHANGED <<host, gpu, graph>>
    \/ /\ pc = <<"WaitForPreviousFrame", "SetEventOnCompletion">>
       /\ \E r \in HRESULTS :
            /\ host' = Returned(host, pc[1], pc[2], "EQ_S_OK", r,
                                "Failed to set up fence event.")
            /\ gpu' = IF SUCCEEDED(r) THEN SetEventOnCompletion(gpu, host.fence)
                                      ELSE gpu
            /\ pc' = Goto("EQ_S_OK", r,
                          <<"WaitForPreviousFrame", "WaitForSingleObject">>)
       /\ obs' = [obs EXCEPT !.reachedBeforeSet =
                                        gpu.completedValue >= host.fence]
       /\ UNCHANGED graph
    \/ /\ pc = <<"WaitForPreviousFrame", "WaitForSingleObject">>
       /\ gpu.fenceEvent
       /\ gpu' = [gpu EXCEPT !.fenceEvent = EventAfterWait(@)]
       /\ obs' = [obs EXCEPT !.callWaits = @ + 1]
       /\ pc' = <<"WaitForPreviousFrame", "GetCurrentBackBufferIndex">>
       /\ UNCHANGED <<host, graph>>
    \/ /\ pc = <<"WaitForPreviousFrame", "GetCurrentBackBufferIndex">>
       /\ host' = [host EXCEPT !.frameIndex_ = gpu.presented % FrameCount]
       /\ pc' = IF host.waitCaller = "Render"
                    THEN <<"Render", "return">>
                    ELSE <<"~HelloMeshNodes", "CloseHandle">>
       /\ UNCHANGED <<gpu, obs, graph>>

\* ~HelloMeshNodes: wait for the GPU once more, then close the event.
Destructor ==
    \/ /\ pc = <<"~HelloMeshNodes", "device_">>
       /\ host' = [host EXCEPT !.waitCaller = "~HelloMeshNodes"]
       /\ obs' = [obs EXCEPT !.callSignals = 0, !.callWaits = 0,
                             !.callExecutes = 0, !.sawIncomplete = FALSE,
                             !.reachedBeforeSet = FALSE]
       /\ pc' = IF host.device_ THEN <<"WaitForPreviousFrame", "Signal">>
                                ELSE <<"~HelloMeshNodes", "return">>
       /\ UNCHANGED <<gpu, graph>>
    \/ /\ pc = <<"~HelloMeshNodes", "CloseHandle">>
       /\ pc' = <<"~HelloMeshNodes", "return">>
       /\ UNCHANGED <<host, gpu, obs, graph>>

Next ==
    \/ Main
    \/ LoadCompiler
    \/ ReleaseCompiler
    \/ WindowInitialize
    \/ Proc
    \/ MessageLoop
    \/ Initialize
    \/ InitializeReturn
    \/ EnableExperimentalFeatures
    \/ GetHardwareAdapter
    \/ InitializeDirectX
    \/ CheckWorkGraphMeshNodeSupport
    \/ CompileShader
    \/ CreateGWGStateObject
    \/ PrepareWorkGraph
    \/ Render
    \/ WaitForPreviousFrame
    \/ Destructor
    \/ GPUExecute

Spec == Init /\ [][Next]_vars

\* The GPU works its queue off, and the thread inside WaitForPreviousFrame
\* keeps running.
SpecFair == Spec /\ WF_vars(GPUExecute) /\ WF_vars(WaitForPreviousFrame)

(***************************************************************************)
(* The work graph executing one DispatchGraph (ShaderSource.h).            *)
(*                                                                         *)
(* A point <<a, b>> stands for the float2 (a * sqrt(3) * u, b * u) with    *)
(* u = 0.45 / 54: on this lattice every point the shaders compute, thirds  *)
(* of lines and apexes of the triangles on them, is a pair of integers.    *)
(***************************************************************************)
v0 == <<0, 108>>
v1 == <<54, -54>>
v2 == <<-54, -54>>

\* lerp(start, end, k / 3.)
LerpThirds(start, end, k) ==
    <<start[1] + (k * (end[1] - start[1])) \div 3,
      start[2] + (k * (end[2] - start[2])) \div 3>>

\* lerp(start, end, .5) + float2(start.y - end.y, end.x - start.x) * sqrt(3) / 6
TriangleMid(start, end) ==
    <<(3 * (start[1] + end[1]) + (start[2] - end[2])) \div 6,
      ((start[2] + end[2]) + (end[1] - start[1])) \div 2>>

\* A record on its way to node `node`; level counts the recursive sends
\* that led to it.
LineRecord(node, start, end, level) ==
    [node |-> node, points |-> <<start, end>>, depth |-> 0, level |-> level]
TriangleDrawRecord(node, a, b, c, depth) ==
    [node |-> node, points |-> <<a, b, c>>, depth |-> depth, level |-> 0]

\* The number of records EntryNode requests on each output
\* (GetThreadNodeOutputRecords).
EntryNodeRequests == [NoOutputs EXCEPT !.SnowflakeNode = 3,
                                       !.TriangleMeshNode = 1]

\* The records EntryNode writes to its outputs.
EntryNodeRecords == <<
    LineRecord("SnowflakeNode", v0, v1, 0),
    LineRecord("SnowflakeNode", v1, v2, 0),
    LineRecord("SnowflakeNode", v2, v0, 0),
    TriangleDrawRecord("TriangleMeshNode", v0, v1, v2, 0) >>

\* GetRemainingRecursionLevels() of an invocation at recursion level `level`
\* of a node declared [NodeMaxRecursionDepth(maxDepth)].
GetRemainingRecursionLevels(maxDepth, level) == maxDepth - level

\* Mutant: the test lets an invocation with no level left recurse once more.
HasOutputAtZero(remaining) == remaining >= 0

\* const bool hasOutput = GetRemainingRecursionLevels() != 0;
HasOutput(remaining) == remaining # 0

\* The number of records SnowflakeNode requests on each output.
SnowflakeNodeRequests(remaining) ==
    LET hasOutput == IF HasOutput(remaining) THEN 1 ELSE 0
    IN [SnowflakeNode |-> hasOutput * 4,
        TriangleMeshNode |-> hasOutput,
        LineMeshNode |-> 1 - hasOutput]

\* A SnowflakeNode whose third line starts at triangleLeft.
SnowflakeNodeRecordsGap(start, end, level, remaining) ==
    IF HasOutput(remaining)
        THEN << LineRecord("SnowflakeNode", start, LerpThirds(start, end, 1),
                           level + 1),
                LineRecord("SnowflakeNode", LerpThirds(start, end, 1),
                           TriangleMid(start, end), level + 1),
                LineRecord("SnowflakeNode", LerpThirds(start, end, 1),
                           LerpThirds(start, end, 2), level + 1),
                LineRecord("SnowflakeNode", LerpThirds(start, end, 2), end,
                           level + 1),
                TriangleDrawRecord("TriangleMeshNode",
                    LerpThirds(start, end, 1), TriangleMid(start, end),
                    LerpThirds(start, end, 2),
                    1 + (maxSnowflakeRecursions - remaining)) >>
        ELSE << LineRecord("LineMeshNode", start, end, 0) >>

\* A SnowflakeNode that draws the line it splits as well.
SnowflakeNodeRecordsWithLine(start, end, level, remaining) ==
    IF HasOutput(remaining)
        THEN << LineRecord("SnowflakeNode", start, LerpThirds(start, end, 1),
                           level + 1),
                LineRecord("SnowflakeNode", LerpThirds(start, end, 1),
                           TriangleMid(start, end), level + 1),
                LineRecord("SnowflakeNode", TriangleMid(start, end),
                           LerpThirds(start, end, 2), level + 1),
                LineRecord("SnowflakeNode", LerpThirds(start, end, 2), end,
                           level + 1),
                TriangleDrawRecord("TriangleMeshNode",
                    LerpThirds(start, end, 1), TriangleMid(start, end),
                    LerpThirds(start, end, 2),
                    1 + (maxSnowflakeRecursions - remaining)),
                LineRecord("LineMeshNode", start, end, 0) >>
        ELSE << LineRecord("LineMeshNode", start, end, 0) >>

\* The records SnowflakeNode writes for the line start -> end.
SnowflakeNodeRecords(start, end, level, remaining) ==
    LET triangleLeft == LerpThirds(start, end, 1)
        triangleMid == TriangleMid(start, end)
        triangleRight == LerpThirds(start, end, 2)
    IN IF HasOutput(remaining)
        THEN << LineRecord("SnowflakeNode", start, triangleLeft, level + 1),
                LineRecord("SnowflakeNode", triangleLeft, triangleMid, level + 1),
                LineRecord("SnowflakeNode", triangleMid, triangleRight, level + 1),
                LineRecord("SnowflakeNode", triangleRight, end, level + 1),
                TriangleDrawRecord("TriangleMeshNode", triangleLeft,
                    triangleMid, triangleRight,
                    1 + (maxSnowflakeRecursions - remaining)) >>
        ELSE << LineRecord("LineMeshNode", start, end, 0) >>

\* The number of records in `recs` sent to each output.
CountByOutput(recs) ==
    [o \in DOMAIN NoOutputs |->
        Cardinality({i \in 1..Len(recs) : recs[i].node = o})]

\* The order in which the GPU takes pending records is not specified; the
\* model follows the two extreme orders.
Policies == {"oldest first", "newest first"}
PickIndex(g) == IF g.policy = "oldest first" THEN 1 ELSE Len(g.records)
Picked(g) == g.records[PickIndex(g)]
Remaining(g) ==
    [i \in 1..(Len(g.records) - 1) |->
        IF i < PickIndex(g) THEN g.records[i] ELSE g.records[i + 1]]

\* The node of graph g a record is for (a set: empty when no node has the id).
NodeOf(g, rec) == {n \in g.nodes : n.id = rec.node}

\* A node with shader `shader` takes the picked record.
Takes(g, shader) ==
    /\ Len(g.records) > 0
    /\ \E n \in NodeOf(g, Picked(g)) : n.shader = shader

\* The graph after an invocation of `shader` consumed the picked record and
\* wrote `out`, having requested `requests`.
Invoked(g, shader, remaining, requests, out) ==
    [g EXCEPT !.records = Remaining(g) \o out,
              !.invocations = @ + 1,
              !.maxLevel = IF shader = "SnowflakeNode" /\ Picked(g).level > @
                              THEN Picked(g).level ELSE @,
              !.last = [shader |-> shader, level |-> Picked(g).level,
                        remaining |-> remaining, requests |-> requests,
                        input |-> Picked(g).points, out |-> out]]

NoInvocation ==
    [shader |-> "none", level |-> 0, remaining |-> 0, requests |-> NoOutputs,
     input |-> <<>>, out |-> <<>>]

\* DispatchGraph with NodeCPUInput: EntrypointIndex 0, NumRecords 1, no data.
EntrypointIndex == 0
NumRecords == 1

\* The nodes entry point index `index` of a work graph can denote (the order
\* of several entry points is not modelled: any of them).
Entrypoint(nodes, index) ==
    IF index < Cardinality(EntryPoints(nodes)) THEN EntryPoints(nodes) ELSE {}

GraphInit ==
    /\ pc = <<"GPU", "DispatchGraph">>
    /\ host = [HostInit EXCEPT !.stateObject_ = WorkGraphNodes]
    /\ gpu = GpuInit
    /\ obs = ObsInit
    /\ \E policy \in Policies, e \in Entrypoint(WorkGraphNodes, EntrypointIndex) :
        graph = [nodes |-> WorkGraphNodes,
                 policy |-> policy,
                 records |-> [i \in 1..NumRecords |->
                                [node |-> e, points |-> <<>>, depth |-> 0,
                                 level |-> 0]],
                 invocations |-> 0,
                 maxLevel |-> 0,
                 lines |-> {},
                 triangles |-> {},
                 last |-> NoInvocation]

EntryNode ==
    /\ Takes(graph, "EntryNode")
    /\ graph' = Invoked(graph, "EntryNode", 0,
                        EntryNodeRequests, EntryNodeRecords)
    /\ UNCHANGED <<pc, host, gpu, obs>>

SnowflakeNode ==
    /\ Takes(graph, "SnowflakeNode")
    /\ LET rec == Picked(graph)
           remaining == GetRemainingRecursionLevels(
                (CHOOSE n \in NodeOf(graph, rec) : TRUE).maxRecursionDepth,
                rec.level)
       IN graph' = Invoked(graph, "SnowflakeNode", remaining,
                        SnowflakeNodeRequests(remaining),
                        SnowflakeNodeRecords(rec.points[1], rec.points[2],
                                             rec.level, remaining))
    /\ UNCHANGED <<pc, host, gpu, obs>>

LineMeshShader ==
    /\ Takes(graph, "LineMeshShader")
    /\ graph' = [Invoked(graph, "LineMeshShader", 0, NoOutputs, <<>>)
                    EXCEPT !.lines = @ \cup {Picked(graph).points}]
    /\ UNCHANGED <<pc, host, gpu, obs>>

TriangleMeshShader ==
    /\ Takes(graph, "TriangleMeshShader")
    /\ graph' = [Invoked(graph, "TriangleMeshShader", 0, NoOutputs, <<>>)
                    EXCEPT !.triangles = @ \cup
                        {[verts |-> Picked(graph).points,
                          depth |-> Picked(graph).depth]}]
    /\ UNCHANGED <<pc, host, gpu, obs>>

GraphNext ==
    \/ EntryNode
    \/ SnowflakeNode
    \/ LineMeshShader
    \/ TriangleMeshShader

SpecGraph == GraphInit /\ [][GraphNext]_vars /\ WF_vars(GraphNext)

(***************************************************************************)
(* Properties of the host program (checked under Spec).                    *)
(***************************************************************************)
AtRenderReturn == pc = <<"Render", "return">>

\* C1: a Render call that returns has recorded one DispatchGraph command and
\* submitted its command list once, and by then the GPU has executed that
\* list and the fence has reached the value signalled for the frame; no call
\* submits more than once.
C1_RenderSubmitsOnceAndWaits ==
    /\ obs.callExecutes <= 1
    /\ AtRenderReturn =>
        /\ obs.callExecutes = 1
        /\ DispatchGraphs(host.commandList) = 1
        /\ Len(gpu.executed) = obs.renderCalls
        /\ gpu.executed[obs.renderCalls] = host.commandList
        /\ Len(obs.signalled) = obs.renderCalls
        /\ obs.signalled[obs.renderCalls] = host.fence
        /\ gpu.completedValue >= host.fence

\* A second frame returned after waiting for the fence event.
C1_Witness ==
    AtRenderReturn /\ obs.renderCalls = 2 /\ obs.callWaits = 1

\* C2: at most one command list is in flight, and whenever Render resets the
\* command allocator or the command list every list submitted before has
\* been executed.
C2_NoPipelining ==
    /\ InFlight(gpu.queue) <= 1
    /\ pc \in {<<"Render", "commandAllocator_->Reset">>,
               <<"Render", "commandList_->Reset">>} =>
            /\ InFlight(gpu.queue) = 0
            /\ Len(gpu.executed) = obs.renderCalls - 1
    /\ \A i \in 1..Len(obs.listOps) :
            obs.listOps[i].op \in {"AllocatorReset", "Reset"} =>
                obs.listOps[i].inFlight = 0

\* The third frame resets the command list after two lists were executed.
C2_Witness ==
    /\ pc = <<"Render", "commandList_->Reset">>
    /\ obs.renderCalls = 3
    /\ Len(gpu.executed) = 2

\* The calls that return a result code (the others return a pointer).
ReturnsResultCode == host.lastCall.check \in {"EQ_S_OK", "SUCCEEDED", "NONE"}

\* C3 as claimed: whenever an API call has returned a nonzero result code the
\* program has been ended by ERROR_QUIT.
C3_AbortOnAnyNonzero ==
    (ReturnsResultCode /\ host.hresult # 0) => pc = Terminated

C3_ChecksDecide ==
    /\ (host.lastCall.check = "EQ_S_OK" /\ host.hresult # 0) => pc = Terminated
    /\ (host.lastCall.check = "SUCCEEDED" /\ host.hresult < 0) => pc = Terminated
    /\ pc = Terminated =>
        /\ host.errorMsg # ""
        /\ host.lastCall.check # "NONE"
        /\ host.lastCall.check = "SUCCEEDED" => host.hresult < 0
    /\ pc # Terminated => host.errorMsg = ""

\* C3 amended: a call tested with hresult == S_OK ends the program on any
\* nonzero code, a call tested with SUCCEEDED only on a failure code, a call
\* whose result is not tested never; ERROR_QUIT prints an error, and after it
\* the program takes no further step.
C3_AbortOnFailedCheck ==
    /\ []C3_ChecksDecide
    /\ [][pc = Terminated => (pc' = pc /\ host' = host /\ obs' = obs)]_vars

\* Present returned a nonzero success code and the program was ended.
C3_Witness ==
    /\ pc = Terminated
    /\ host.lastCall.call = "Present"
    /\ host.hresult = S_FALSE
    /\ obs.renderCalls = 2

\* C4 as claimed: every Render call that returns has signalled the fence
\* once and waited on the fence event once.
C4_OneSignalOneWait ==
    AtRenderReturn => (obs.callSignals = 1 /\ obs.callWaits = 1)

\* C4 amended: every Render call that returns has signalled the fence once
\* and waited on the fence event at most once: once when the fence had not
\* reached the signalled value at the GetCompletedValue test, not at all when
\* it had.
C4_OneSignalAtMostOneWait ==
    /\ obs.callSignals <= 1
    /\ obs.callWaits <= 1
    /\ AtRenderReturn =>
        /\ obs.callSignals = 1
        /\ obs.callWaits = IF obs.sawIncomplete THEN 1 ELSE 0

\* A Render call returned without waiting on the event.
C4_Witness ==
    AtRenderReturn /\ obs.callSignals = 1 /\ obs.callWaits = 0

IsPrefix(s, t) == Len(s) <= Len(t) /\ \A i \in 1..Len(s) : s[i] = t[i]

\* C5: the steps of Initialize start in the order EnableExperimentalFeatures,
\* InitializeDirectX, CheckWorkGraphMeshNodeSupport, the lib_6_9 compilation,
\* the ps_6_9 compilation, CreateGWGStateObject, PrepareWorkGraph, each at
\* most once and only after every earlier step returned; the device exists
\* only once the experimental features are enabled.
C5_InitializeOrder ==
    /\ IsPrefix(obs.initLog,
            <<"EnableExperimentalFeatures", "InitializeDirectX",
              "CheckWorkGraphMeshNodeSupport", "CompileShader(lib_6_9)",
              "CompileShader(ps_6_9)", "CreateGWGStateObject",
              "PrepareWorkGraph">>)
    /\ \A i \in 1..Len(obs.initLog) : \A j \in 1..(i - 1) :
            obs.initLog[j] \in obs.initDone
    /\ obs.initDone \subseteq {obs.initLog[i] : i \in 1..Len(obs.initLog)}
    /\ host.device_ => obs.experimental
    /\ pc = <<"Initialize", "return">> => Cardinality(obs.initDone) = 7

\* Initialize ran to its end.
C5_Witness ==
    /\ pc = <<"Initialize", "return">>
    /\ Len(obs.initLog) = 7
    /\ host.setProgramDesc_.Type = "D3D12_PROGRAM_TYPE_WORK_GRAPH"

RenderRunning ==
    \/ pc[1] = "Render"
    \/ pc[1] = "WaitForPreviousFrame" /\ host.waitCaller = "Render"

\* C6: Render has been called as many times as the window procedure has
\* handled a WM_PAINT message, and only while it handles one.
C6_RenderPerPaint ==
    /\ obs.renderCalls = obs.paintHandled
    /\ RenderRunning => host.message = "WM_PAINT"

\* Two frames were painted and then a message that is no WM_PAINT was handled.
C6_Witness ==
    /\ obs.renderCalls = 2
    /\ obs.returned = 2
    /\ pc = <<"MessageLoop", "PeekMessage">>
    /\ host.message = "WM_SIZE"

\* C8: every output of every node of the state object's work graph names a
\* node of the graph, LineMeshNode is the node of LineMeshShader,
\* TriangleMeshNode the node of TriangleMeshShader, no node is called
\* TriangleMeshShader, and EntryNode is the only entry point, the one
\* entry point index 0 denotes.
C8_WiringClosed ==
    LET nodes == host.stateObject_
    IN nodes # {} =>
        /\ \A n \in nodes : n.outputs \subseteq NodeIds(nodes)
        /\ \E n \in nodes : /\ n.id = "EntryNode"
                            /\ n.outputs = {"SnowflakeNode", "TriangleMeshNode"}
        /\ \E n \in nodes : /\ n.id = "SnowflakeNode"
                            /\ n.outputs = {"SnowflakeNode", "TriangleMeshNode",
                                            "LineMeshNode"}
        /\ \E n \in nodes : n.id = "LineMeshNode" /\ n.shader = "LineMeshShader"
        /\ \E n \in nodes : /\ n.id = "TriangleMeshNode"
                            /\ n.shader = "TriangleMeshShader"
        /\ "TriangleMeshShader" \notin NodeIds(nodes)
        /\ Cardinality(nodes) = 4
        /\ EntryPoints(nodes) = {"EntryNode"}
        /\ Entrypoint(nodes, EntrypointIndex) = {"EntryNode"}

\* The state object exists and a frame's command list is being submitted.
C8_Witness ==
    host.stateObject_ # {} /\ pc = <<"Render", "ExecuteCommandLists">>

\* C9: the SetProgram command of the first RecordCommandList call carries
\* D3D12_SET_WORK_GRAPH_FLAG_INITIALIZE, that of every later call
\* D3D12_SET_WORK_GRAPH_FLAG_NONE, and each call records one SetProgram.
C9_InitializeFirstFrameOnly ==
    /\ \A k \in 1..Len(obs.setPrograms) :
            obs.setPrograms[k] = IF k = 1
                THEN "D3D12_SET_WORK_GRAPH_FLAG_INITIALIZE"
                ELSE "D3D12_SET_WORK_GRAPH_FLAG_NONE"
    /\ Len(obs.setPrograms) <= obs.renderCalls
    /\ AtRenderReturn => Len(obs.setPrograms) = obs.renderCalls
    /\ \A k \in 1..Len(gpu.executed) :
            SetProgramFlags(gpu.executed[k]) = <<obs.setPrograms[k]>>

\* Three frames were recorded.
C9_Witness ==
    Len(obs.setPrograms) = 3 /\ AtRenderReturn

\* C10: the command list is closed when InitializeDirectX has returned and
\* at the entry and exit of every Render call; every Reset found the list
\* closed, every recording and every Close found it recording, and every
\* ExecuteCommandLists found it closed.
C10_ListStateDiscipline ==
    /\ \A i \in 1..Len(obs.listOps) :
        LET o == obs.listOps[i]
        IN /\ o.op = "Reset" => o.state = "closed"
           /\ o.op \in {"Record", "Close"} => o.state = "recording"
           /\ o.op = "Execute" => o.state = "closed"
    /\ pc = <<"InitializeDirectX", "return">> => host.listState = "closed"
    /\ pc \in {<<"Render", "commandAllocator_->Reset">>,
               <<"Render", "return">>} => host.listState = "closed"

\* The second frame's list was closed and submitted.
C10_Witness ==
    /\ obs.renderCalls = 2
    /\ pc = <<"Render", "Present">>
    /\ obs.listOps[Len(obs.listOps)].op = "Execute"


\* C11 as claimed: the k-th Signal passes the value k, and the fence's
\* completed value never exceeds fenceValue_ - 1.
C11_CompletedBelowFenceValue ==
    /\ \A k \in 1..Len(obs.signalled) : obs.signalled[k] = k
    /\ gpu.fence_ => gpu.completedValue <= host.fenceValue_ - 1

\* Signal has returned S_OK or S_FALSE and fenceValue_++ has not run: the
\* statement is next, or ERROR_QUIT ended the program in front of it.
BeforeIncrement ==
    \/ pc = <<"WaitForPreviousFrame", "fenceValue_++">>
    \/ /\ pc = Terminated
       /\ host.lastCall.call = "Signal"
       /\ SUCCEEDED(host.hresult)

\* C11 amended: fenceValue_ is 1 after initialisation, the k-th Signal passes
\* the value k (so the values strictly increase and none is passed twice),
\* fenceValue_ is one more than the last value passed once fenceValue_++ has
\* run and equal to it in between, and the fence's completed value never
\* exceeds the last value passed to Signal.
C11_SignalledValuesIncrease ==
    /\ \A k \in 1..Len(obs.signalled) : obs.signalled[k] = k
    /\ gpu.fence_ =>
        /\ gpu.completedValue <= Len(obs.signalled)
        /\ host.fenceValue_ = IF BeforeIncrement THEN Len(obs.signalled)
                                                 ELSE Len(obs.signalled) + 1
        /\ ~BeforeIncrement => gpu.completedValue <= host.fenceValue_ - 1

\* The GPU reached the second value signalled before fenceValue_++ ran.
C11_Witness ==
    /\ pc = <<"WaitForPreviousFrame", "fenceValue_++">>
    /\ obs.signalled = <<1, 2>>
    /\ gpu.completedValue = 2
    /\ host.fenceValue_ = 2

\* The fence event is signalled, or the fence is to signal it later.
EventArmed == gpu.fenceEvent \/ gpu.eventOn # {}

\* The event is armed only for the wait that follows SetEventOnCompletion
\* (or when ERROR_QUIT ended the program behind SetEventOnCompletion), and a
\* wait that ended found the fence at the value signalled.
C12_EventNotLeft ==
    /\ EventArmed =>
        \/ pc = <<"WaitForPreviousFrame", "WaitForSingleObject">>
        \/ pc = Terminated /\ host.lastCall.call = "SetEventOnCompletion"
    /\ (pc = <<"WaitForPreviousFrame", "GetCurrentBackBufferIndex">>
            /\ obs.callWaits > 0) => gpu.completedValue >= host.fence

\* C12: with a GPU that works its queue off, every WaitForSingleObject of
\* WaitForPreviousFrame ends and every call of WaitForPreviousFrame returns
\* (or is ended by ERROR_QUIT), also when the GPU reaches the value between
\* the GetCompletedValue test and SetEventOnCompletion; and the auto-reset
\* event is never left signalled or armed for a later frame.
C12_NoLostWakeUp ==
    /\ []C12_EventNotLeft
    /\ (pc = <<"WaitForPreviousFrame", "WaitForSingleObject">>)
            ~> (pc = <<"WaitForPreviousFrame", "GetCurrentBackBufferIndex">>)
    /\ (pc[1] = "WaitForPreviousFrame")
            ~> (pc[1] # "WaitForPreviousFrame")

\* The GPU reached the value between the GetCompletedValue test and
\* SetEventOnCompletion, and the wait ended all the same.
C12_Witness ==
    /\ pc = <<"WaitForPreviousFrame", "GetCurrentBackBufferIndex">>
    /\ obs.sawIncomplete
    /\ obs.callWaits = 1
    /\ gpu.eventOn = {}
    /\ ~gpu.fenceEvent
    /\ obs.reachedBeforeSet

\* The functions Initialize calls behind CheckWorkGraphMeshNodeSupport.
WorkGraphSteps == {"CompileShader(lib_6_9)", "CompileShader(ps_6_9)",
                   "CreateGWGStateObject", "PrepareWorkGraph"}

\* Initialize has called one of them.
WorkGraphStepStarted ==
    \E i \in 1..Len(obs.initLog) : obs.initLog[i] \in WorkGraphSteps

\* Nothing of the work graph exists in the object.
WorkGraphUnset ==
    /\ ~host.workGraphLibrary_
    /\ ~host.pixelShaderLibrary_
    /\ host.stateObject_ = {}
    /\ host.setProgramDesc_ = HostInit.setProgramDesc_

\* C13: when CheckFeatureSupport does not return S_OK or reports a tier below
\* D3D12_WORK_GRAPHS_TIER_1_1 the program is ended with an error message
\* before any shader is compiled and before CreateGWGStateObject and
\* PrepareWorkGraph, with stateObject_ and setProgramDesc_ unset; these steps
\* only run behind a check that found tier 1.1, and on its device.
C13_MeshNodeSupportFirst ==
    /\ host.lastCall.fn = "CheckWorkGraphMeshNodeSupport" =>
        /\ pc = Terminated <=>
            (host.hresult # S_OK
                \/ host.workGraphsTier < D3D12_WORK_GRAPHS_TIER_1_1)
        /\ pc = Terminated =>
            /\ host.errorMsg # ""
            /\ ~WorkGraphStepStarted
            /\ WorkGraphUnset
    /\ (WorkGraphStepStarted \/ ~WorkGraphUnset) =>
        /\ "CheckWorkGraphMeshNodeSupport" \in obs.initDone
        /\ host.workGraphsTier >= D3D12_WORK_GRAPHS_TIER_1_1
        /\ host.device_

\* The device has work graphs without mesh nodes, and the program has ended.
C13_Witness ==
    /\ pc = Terminated
    /\ host.lastCall.fn = "CheckWorkGraphMeshNodeSupport"
    /\ host.hresult = S_OK
    /\ host.workGraphsTier = D3D12_WORK_GRAPHS_TIER_1_0
    /\ WorkGraphUnset
(***************************************************************************)
(* Properties of the work graph (checked under SpecGraph).                 *)
(***************************************************************************)
C7_Bounded ==
    /\ graph.last.shader = "SnowflakeNode" =>
        /\ graph.last.remaining \in 0..3
        /\ graph.last.remaining = 0 =>
            /\ graph.last.requests.SnowflakeNode = 0
            /\ \A i \in 1..Len(graph.last.out) :
                    graph.last.out[i].node # "SnowflakeNode"
    /\ graph.maxLevel <= 3
    /\ \A i \in 1..Len(graph.records) : graph.records[i].level <= 3

\* C7: from the single entry record, a SnowflakeNode invocation with zero
\* remaining recursion levels sends no SnowflakeNode record, no SnowflakeNode
\* record or invocation is more than 3 recursion levels deep, and the
\* execution ends with no record pending.
C7_RecursionBounded ==
    /\ []C7_Bounded
    /\ <>[](Len(graph.records) = 0)

\* The graph ran to its end through all 3 recursion levels.
C7_Witness ==
    /\ Len(graph.records) = 0
    /\ graph.maxLevel = 3
    /\ graph.last.shader = "LineMeshShader"
    /\ Cardinality(graph.lines) = 192


\* Every output gets at most as many records as `maxRecords` allows.
WithinMaxRecords(requests, maxRecords) ==
    \A o \in DOMAIN NoOutputs : requests[o] <= maxRecords[o]

\* C14: a SnowflakeNode invocation with remaining recursion levels sends
\* exactly 4 SnowflakeNode records, 1 TriangleMeshNode record and no
\* LineMeshNode record; one with none left sends exactly 1 LineMeshNode record
\* and nothing else; what it requests on each output is what it sends and is
\* within the output's MaxRecords (4, 1, 1); EntryNode sends exactly 3
\* SnowflakeNode records and 1 TriangleMeshNode record.
C14_RecurseOrDraw ==
    /\ graph.last.shader = "SnowflakeNode" =>
        /\ CountByOutput(graph.last.out) = graph.last.requests
        /\ WithinMaxRecords(graph.last.requests, SnowflakeNodeMaxRecords)
        /\ graph.last.remaining # 0 =>
            /\ graph.last.requests = [SnowflakeNode |-> 4,
                                      TriangleMeshNode |-> 1,
                                      LineMeshNode |-> 0]
            /\ Len(graph.last.out) = 5
        /\ graph.last.remaining = 0 =>
            /\ graph.last.requests = [SnowflakeNode |-> 0,
                                      TriangleMeshNode |-> 0,
                                      LineMeshNode |-> 1]
            /\ Len(graph.last.out) = 1
    /\ graph.last.shader = "EntryNode" =>
        /\ CountByOutput(graph.last.out) = graph.last.requests
        /\ WithinMaxRecords(graph.last.requests, EntryNodeMaxRecords)
        /\ graph.last.requests = [SnowflakeNode |-> 3,
                                  TriangleMeshNode |-> 1,
                                  LineMeshNode |-> 0]
        /\ Len(graph.last.out) = 4

\* An invocation recursed after another one, out of levels, had its line
\* drawn.
C14_Witness ==
    /\ graph.last.shader = "SnowflakeNode"
    /\ graph.last.remaining = 1
    /\ CountByOutput(graph.last.out).SnowflakeNode = 4
    /\ Cardinality(graph.lines) > 0

\* The lines of the outline so far: those drawn and those on their way to
\* SnowflakeNode or LineMeshNode.
OutlineLines(g) ==
    g.lines \cup {g.records[i].points : i \in
        {j \in 1..Len(g.records) :
            g.records[j].node \in {"SnowflakeNode", "LineMeshNode"}}}

\* The line of L that starts where `line` ends.
Succ(L, line) == CHOOSE m \in L : m[1] = line[2]

\* The lines met on a walk of at least n lines from `line`, each line
\* followed by the one that starts where it ends (8 lines at a time).
RECURSIVE Walk(_, _, _)
Walk(L, line, n) ==
    IF n <= 0 THEN {}
    ELSE LET a1 == Succ(L, line)
             a2 == Succ(L, a1)
             a3 == Succ(L, a2)
             a4 == Succ(L, a3)
             a5 == Succ(L, a4)
             a6 == Succ(L, a5)
             a7 == Succ(L, a6)
         IN {line, a1, a2, a3, a4, a5, a6, a7}
                \cup Walk(L, Succ(L, a7), n - 8)

\* The lines of L form one closed loop: every line starts where a line ends
\* and ends where a line starts, and a walk along them meets them all.
ClosedOutline(L) ==
    /\ \A l \in L : (\E m \in L : m[1] = l[2]) /\ (\E m \in L : m[2] = l[1])
    /\ L # {} => Walk(L, CHOOSE l \in L : TRUE, Cardinality(L)) = L

\* C15: a SnowflakeNode invocation that recurses on the line (start, end)
\* sends 4 lines of which the first starts at start, the last ends at end and
\* each ends where the next starts, and a triangle whose vertices are the
\* three points in between; EntryNode sends the lines v0->v1, v1->v2, v2->v0;
\* and the lines of a dispatch, drawn or pending, form one closed outline at
\* every stage, the 192 lines drawn in the end included.
C15_ConnectedSegments ==
    /\ (graph.last.shader = "SnowflakeNode" /\ graph.last.remaining # 0) =>
        LET out == graph.last.out
        IN /\ Len(out) = 5
           /\ \A i \in 1..4 : out[i].node = "SnowflakeNode"
           /\ out[1].points[1] = graph.last.input[1]
           /\ out[4].points[2] = graph.last.input[2]
           /\ \A i \in 1..3 : out[i].points[2] = out[i + 1].points[1]
           /\ out[5].node = "TriangleMeshNode"
           /\ out[5].points = <<out[1].points[2], out[2].points[2],
                                out[3].points[2]>>
           /\ Cardinality({out[5].points[k] : k \in 1..3}) = 3
    /\ graph.last.shader = "EntryNode" =>
        /\ graph.last.out[1].points = <<v0, v1>>
        /\ graph.last.out[2].points = <<v1, v2>>
        /\ graph.last.out[3].points = <<v2, v0>>
    /\ ClosedOutline(OutlineLines(graph))
    /\ (Len(graph.records) = 0 /\ graph.invocations > 0) =>
        /\ graph.lines = OutlineLines(graph)
        /\ Cardinality(graph.lines) = 3 * 4 * 4 * 4

\* The dispatch is over and its 192 lines are drawn.
C15_Witness ==
    /\ Len(graph.records) = 0
    /\ Cardinality(graph.lines) = 192
    /\ ClosedOutline(graph.lines)
    /\ graph.policy = "oldest first"
====
